---- MODULE Spec2Model ----
(***************************************************************************)
(* Chunked world generation of Travelers: the Wave Function Collapse       *)
(* solver of a chunk's interior (src/src/world/wfc.rs), the stitcher of a  *)
(* chunk's perimeter ring (src/src/world/stitcher.rs) and the per-tick     *)
(* chunk lifecycle (src/src/world/mod.rs).                                 *)
(*                                                                         *)
(* The specifications share the variables:                                 *)
(*   SpecWfc       one chunk's WaveFunctionCollapse::init / collapse and   *)
(*                 the materialisation of its grid by create_chunks;       *)
(*   SpecStitch    Stitcher::init / stitch for one of two neighbouring     *)
(*                 chunks and the materialisation of its ring by           *)
(*                 gen_chunk_stitches;                                     *)
(*   SpecWorld     the Update schedule: gen_chunks, gen_chunk_stitches and *)
(*                 the deferred commands, the camera moving in between;    *)
(*   FairSpecWorld SpecWorld's schedule with every system run in every     *)
(*                 tick, the camera moving along one axis;                 *)
(*   FairSpecWfc   SpecWfc with the steps of collapse taken in sequence;   *)
(*   SpecStitchOrigin  SpecStitch's pass for the chunk under the player's  *)
(*                 start;                                                  *)
(*   SpecGenerate  the interior pass of a chunk followed by its stitching  *)
(*                 pass;                                                   *)
(*   SpecLoader    SchematicLoader::load (src/src/world/schematic.rs);     *)
(*   SpecDraw      the random draw of scratch / collapse_tile for every    *)
(*                 size of the set drawn from.                             *)
(***************************************************************************)
EXTENDS Integers, Sequences, FiniteSets, Bags, TLC

(***************************************************************************)
(* Program constants.  CHUNK_TILE_LENGTH is 8 in the source; the model     *)
(* runs the same code on 2 x 2 interiors.                                  *)
(***************************************************************************)
CHUNK_TILE_LENGTH == 2
TILE_SIZE == 32
CHUNK_SIZE == CHUNK_TILE_LENGTH * TILE_SIZE
RENDER_DISTANCE == 2
WORLD_SEED == 42

(***************************************************************************)
(* Bounds of the model.                                                    *)
(***************************************************************************)
\* number of tile types of a schematic (its keys are 0 .. NumTiles-1)
NumTiles == 2
\* a schematic's allow-lists miss at most this many entries in total
MaxRemoved == 2
\* number of times one chunk coordinate is generated in SpecWfc
MaxRuns == 2

\* Option::None of a tile id
None == -1
\* Option::None of a cell index
NoCell == <<-1, -1>>

Keys == 0 .. (NumTiles - 1)
Dirs == {"north", "east", "south", "west"}

Cells == (0 .. (CHUNK_TILE_LENGTH - 1)) \X (0 .. (CHUNK_TILE_LENGTH - 1))

(***************************************************************************)
(* SchematicAsset: not_found and the map from tile id to its TileSchematic *)
(* (only the four allow-lists matter to generation).  The loader does not  *)
(* check not_found against the keys, so it may be a key or not.            *)
(***************************************************************************)
Entries == Keys \X Dirs \X Keys

RemovedSets ==
    { {r[i] : i \in 1 .. n} : r \in [1 .. MaxRemoved -> Entries], n \in 0 .. MaxRemoved }

TileSchematic(removed, t) ==
    [d \in Dirs |-> {k \in Keys : <<t, d, k>> \notin removed}]

SchematicAsset ==
    { [not_found |-> nf, tiles |-> [t \in Keys |-> TileSchematic(removed, t)]] :
        nf \in {0, NumTiles}, removed \in RemovedSets }

\* a schematic in which every tile type allows only itself on every side
MonochromeSchematics ==
    { [not_found |-> nf, tiles |-> [t \in Keys |-> [d \in Dirs |-> {t}]]] :
        nf \in {0, NumTiles} }

(***************************************************************************)
(* Enumeration orders of a HashMap / HashSet over the keys: Rust leaves    *)
(* the order unspecified (it depends on the table's random hasher state),  *)
(* so every permutation is possible.  A clone keeps the order.             *)
(***************************************************************************)
Orders ==
    { o \in [1 .. NumTiles -> Keys] : \A i, j \in 1 .. NumTiles : i # j => o[i] # o[j] }

\* position of id k in the order o
PosIn(o, k) == CHOOSE i \in 1 .. NumTiles : o[i] = k

\* set.iter().nth(n) of a HashSet enumerated in the order o
IterNth(o, set, n) ==
    CHOOSE k \in set : Cardinality({j \in set : PosIn(o, j) < PosIn(o, k)}) = n

(***************************************************************************)
(* StdRng::seed_from_u64(hash).gen_range(0..n): a deterministic function   *)
(* of the seed and of n.  The generator's values are not modelled: a table *)
(* fixed at the start stands for them, any table being possible.           *)
(***************************************************************************)
RngTables == [1 .. NumTiles -> 0 .. (NumTiles - 1)]

ValidRng(t) == \A n \in 1 .. NumTiles : t[n] < n

VARIABLES
    schematic,          \* the loaded SchematicAsset
    rng,                \* gen_range of the generator seeded with the chunk's hash
    wfc_coords,         \* WaveFunctionCollapse.coords
    wfc_hash,           \* WaveFunctionCollapse.hash
    wfc_order,          \* enumeration order of the constraint HashSets of this run
    constraint_map,     \* WaveFunctionCollapse.constraint_map
    tiles,              \* WaveFunctionCollapse.tiles
    has_next,           \* collapse's loop flag
    iterations,         \* how many times collapse's loop body was entered
    wfc_pc,             \* position in create_chunks / collapse
    spawned,            \* the Tile children create_chunks spawned for the chunk
    runs,               \* how many times the coordinate has been generated
    prev_tiles,         \* the grid the previous generation returned
    prev_coords         \* the coordinate of the previous generation

wfc_vars == <<schematic, rng, wfc_coords, wfc_hash, wfc_order, constraint_map, tiles,
              has_next, iterations, wfc_pc, spawned, runs, prev_tiles, prev_coords>>

VARIABLES
    focus,              \* translation of the camera
    chunks,             \* the live Chunk entities, a bag of chunk records
    in_range,           \* chunks_in_range of the tick's gen_chunks
    cmd_spawn,          \* Commands of gen_chunks: chunks to spawn (a bag)
    cmd_despawn,        \* Commands of gen_chunks: chunk records to despawn
    cmd_stitch,         \* Commands of gen_chunk_stitches: chunk records stitched
    ran_gen,            \* gen_chunks has run in this tick
    ran_stitch,         \* gen_chunk_stitches has run in this tick
    watch               \* rigid: the chunk coordinate and adjacency slot a
                        \* liveness claim is stated for

world_vars == <<focus, chunks, in_range, cmd_spawn, cmd_despawn, cmd_stitch, ran_gen,
                ran_stitch, watch>>

VARIABLES
    st_live,            \* the Tile children of the live chunks read by the pass
    st_coords,          \* Stitcher.coords: the dirty chunk the pass is for
    st_chunk,           \* Stitcher.chunk
    st_adj,             \* Stitcher.adj
    st_constraint_map,  \* Stitcher.constraint_map
    st_tiles,           \* Stitcher.tiles
    st_pc,              \* position in the body of gen_chunk_stitches' for loop
    st_ring,            \* the ring children the pass spawned for the chunk
    st_order            \* the ring cells stitch collapsed, in the order of collapse

stitch_vars == <<st_live, st_coords, st_chunk, st_adj, st_constraint_map, st_tiles,
                 st_pc, st_ring, st_order>>

VARIABLES
    ld_bytes,           \* the document SchematicLoader::load reads
    ld_pc,              \* position in load
    ld_result           \* what load finished with

loader_vars == <<ld_bytes, ld_pc, ld_result>>

VARIABLES
    draw_site,          \* the function that draws: scratch or a collapse_tile
    draw_len,           \* keys.len() / available.len(), a usize
    draw_upper,         \* the end of the range given to gen_range: the length as u8
    draw_rand,          \* the index gen_range returned
    draw_pc             \* position in the function

draw_vars == <<draw_site, draw_len, draw_upper, draw_rand, draw_pc>>

vars == <<wfc_vars, world_vars, stitch_vars, loader_vars, draw_vars>>

\* the lifecycle part of the state while only one chunk's generation is followed
WorldIdle ==
    /\ focus = <<0, 0>>
    /\ chunks = EmptyBag
    /\ in_range = <<>>
    /\ cmd_spawn = EmptyBag
    /\ cmd_despawn = {}
    /\ cmd_stitch = {}
    /\ ran_gen = FALSE
    /\ ran_stitch = FALSE

NoWatch == <<<<0, 0>>, 1>>

\* the stitching part of the state while no stitching pass is followed
StitchIdle ==
    /\ st_live = <<>>
    /\ st_coords = <<0, 0>>
    /\ st_chunk = {}
    /\ st_adj = <<>>
    /\ st_constraint_map = <<>>
    /\ st_tiles = <<>>
    /\ st_pc = "idle"
    /\ st_ring = {}
    /\ st_order = <<>>

\* the loader part of the state while the loader is not followed: the
\* schematic is loaded
LoaderIdle ==
    /\ ld_bytes = <<>>
    /\ ld_pc = "loaded"
    /\ ld_result = <<>>

\* no draw is followed
DrawIdle ==
    /\ draw_site = "none"
    /\ draw_len = 0
    /\ draw_upper = 0
    /\ draw_rand = None
    /\ draw_pc = "idle"

(***************************************************************************)
(* wfc.rs                                                                  *)
(***************************************************************************)
\* DefaultHasher::new() has fixed keys: the hash is a function of the sum alone.
\* The hash value is represented by the value hashed.
get_hash(world_seed, coords) == coords[1] + coords[2] + world_seed

init_constraints(s) == DOMAIN s.tiles

\* the neighbour's allow-list that restricts cell c, or all ids when the
\* neighbour is outside the grid or not collapsed
\* mutant: every neighbour constrains by its north list
Allowed_north(s, t, c, dx, dy, dir) ==
    LET n == <<c[1] + dx, c[2] + dy>>
    IN  IF n \in Cells /\ t[n] # None THEN s.tiles[t[n]]["north"] ELSE Keys

Allowed(s, t, c, dx, dy, dir) ==
    LET n == <<c[1] + dx, c[2] + dy>>
    IN  IF n \in Cells /\ t[n] # None THEN s.tiles[t[n]][dir] ELSE Keys

\* mutant: retain keeps the ids the neighbours do not allow
update_cell_negated(s, t, cm, c) ==
    IF t[c] # None
    THEN {}
    ELSE {k \in cm[c] :
            \A n \in {<<<<-1, 0>>, "east">>, <<<<0, -1>>, "north">>,
                       <<<<1, 0>>, "west">>, <<<<0, 1>>, "south">>} :
               LET d == <<c[1] + n[1][1], c[2] + n[1][2]>>
               IN  (d \in Cells /\ t[d] # None) => k \notin s.tiles[t[d]][n[2]]}

\* mutant: the domain of a collapsed cell is narrowed like any other, not cleared
update_cell_keep(s, t, cm, c) ==
    cm[c] \cap Allowed(s, t, c, -1, 0, "east")
          \cap Allowed(s, t, c, 0, -1, "north")
          \cap Allowed(s, t, c, 1, 0, "west")
          \cap Allowed(s, t, c, 0, 1, "south")

update_cell(s, t, cm, c) ==
    IF t[c] # None
    THEN {}
    ELSE cm[c] \cap Allowed(s, t, c, -1, 0, "east")
               \cap Allowed(s, t, c, 0, -1, "north")
               \cap Allowed(s, t, c, 1, 0, "west")
               \cap Allowed(s, t, c, 0, 1, "south")

\* mutant: the pass leaves every domain as it is
update_constraint_map_idle(s, t, cm) == [c \in Cells |-> cm[c]]

update_constraint_map(s, t, cm) == [c \in Cells |-> update_cell(s, t, cm, c)]

\* scan order of lowest_entropy: x outer, y inner
ScanBefore(a, b) == a[1] < b[1] \/ (a[1] = b[1] /\ a[2] < b[2])

\* the cells in the order of the two for loops: x outer, y inner
ScanOrder ==
    [i \in 1 .. (CHUNK_TILE_LENGTH * CHUNK_TILE_LENGTH) |->
        <<(i - 1) \div CHUNK_TILE_LENGTH, (i - 1) % CHUNK_TILE_LENGTH>>]

RECURSIVE entropy_scan_last(_, _, _, _)
\* mutant: a cell as small as the running minimum replaces it
entropy_scan_last(cm, i, lowest, index) ==
    IF i > Len(ScanOrder)
    THEN index
    ELSE LET n_constraints == Cardinality(cm[ScanOrder[i]])
         IN  IF n_constraints > 0 /\ (lowest = 0 \/ n_constraints <= lowest)
             THEN entropy_scan_last(cm, i + 1, n_constraints, ScanOrder[i])
             ELSE entropy_scan_last(cm, i + 1, lowest, index)

\* mutant of lowest_entropy
lowest_entropy_last(cm) == entropy_scan_last(cm, 1, 0, NoCell)

RECURSIVE entropy_scan(_, _, _, _)
\* the loops of lowest_entropy from position i on, with the running minimum
\* lowest (0: none yet) and its cell index
entropy_scan(cm, i, lowest, index) ==
    IF i > Len(ScanOrder)
    THEN index
    ELSE LET n_constraints == Cardinality(cm[ScanOrder[i]])
         IN  IF n_constraints > 0 /\ (lowest = 0 \/ n_constraints < lowest)
             THEN entropy_scan(cm, i + 1, n_constraints, ScanOrder[i])
             ELSE entropy_scan(cm, i + 1, lowest, index)

lowest_entropy(cm) == entropy_scan(cm, 1, 0, NoCell)

\* keys.len() as u8 / available.len() as u8
AsU8(n) == n % 256

\* mutant: the draw is made among all the ids, not in the cell's domain
collapse_tile_any(cm, order, table, idx) ==
    IterNth(order, Keys, table[AsU8(Cardinality(Keys))])

\* mutant: one running generator, each draw moves on in its stream
collapse_tile_stream(cm, order, table, idx) ==
    IterNth(order, cm[idx],
            (table[AsU8(Cardinality(cm[idx]))] + iterations) % Cardinality(cm[idx]))

collapse_tile(cm, order, table, idx) ==
    IterNth(order, cm[idx], table[AsU8(Cardinality(cm[idx]))])

WfcInitState(s, coords, order) ==
    /\ wfc_coords' = coords
    /\ wfc_hash' = get_hash(WORLD_SEED, coords)
    /\ wfc_order' = order
    /\ constraint_map' = [c \in Cells |-> init_constraints(s)]
    /\ tiles' = [c \in Cells |-> None]
    /\ has_next' = TRUE
    /\ iterations' = 0
    /\ wfc_pc' = "scratch"
    /\ spawned' = {}

WfcCoords == {<<-TILE_SIZE, -TILE_SIZE>>}

\* the chunk coordinates generated after the first: the same coordinate again,
\* and the chunk one stride east and one stride south of it, for which
\* coords.0 + coords.1 is the same, so that rng is the generator of both
WfcTwins ==
    WfcCoords \cup {<<c[1] + CHUNK_SIZE + TILE_SIZE, c[2] - CHUNK_SIZE - TILE_SIZE>> : c \in WfcCoords}

WfcInit ==
    /\ schematic \in SchematicAsset \cup MonochromeSchematics
    /\ rng \in {t \in RngTables : ValidRng(t)}
    /\ wfc_coords \in WfcCoords
    /\ wfc_hash = get_hash(WORLD_SEED, wfc_coords)
    /\ wfc_order \in Orders
    /\ constraint_map = [c \in Cells |-> init_constraints(schematic)]
    /\ tiles = [c \in Cells |-> None]
    /\ has_next = TRUE
    /\ iterations = 0
    /\ wfc_pc = "scratch"
    /\ spawned = {}
    /\ runs = 1
    /\ prev_tiles = [c \in Cells |-> None]
    /\ prev_coords = wfc_coords
    /\ WorldIdle
    /\ watch = NoWatch
    /\ LoaderIdle
    /\ DrawIdle
    /\ StitchIdle

\* self.tiles[0][0] = self.scratch(): the keys of the schematic's HashMap, in
\* its own enumeration order, indexed by the draw
Scratch ==
    /\ wfc_pc = "scratch"
    /\ \E korder \in Orders :
         tiles' = [tiles EXCEPT ![<<0, 0>>] =
                      korder[rng[AsU8(Cardinality(DOMAIN schematic.tiles))] + 1]]
    /\ wfc_pc' = "select"
    /\ UNCHANGED <<schematic, rng, wfc_coords, wfc_hash, wfc_order, constraint_map,
                   has_next, iterations, spawned, runs, prev_tiles, prev_coords, world_vars, stitch_vars, loader_vars, draw_vars>>

\* the iterations of collapse's loop are counted up to here
MaxIterations == (CHUNK_TILE_LENGTH * CHUNK_TILE_LENGTH) + 3

\* the first half of the loop body: lowest_entropy, then collapse_tile
Select ==
    /\ wfc_pc = "select"
    /\ LET next == lowest_entropy(constraint_map)
       IN  IF next # NoCell
           THEN /\ tiles' = [tiles EXCEPT ![next] =
                               collapse_tile(constraint_map, wfc_order, rng, next)]
                /\ has_next' = has_next
           ELSE /\ tiles' = tiles
                /\ has_next' = FALSE
    /\ iterations' = IF iterations < MaxIterations THEN iterations + 1 ELSE iterations
    /\ wfc_pc' = "update"
    /\ UNCHANGED <<schematic, rng, wfc_coords, wfc_hash, wfc_order, constraint_map,
                   spawned, runs, prev_tiles, prev_coords, world_vars, stitch_vars, loader_vars, draw_vars>>

\* the second half of the loop body: update_constraint_map, then the loop test
Update ==
    /\ wfc_pc = "update"
    /\ constraint_map' = update_constraint_map(schematic, tiles, constraint_map)
    /\ wfc_pc' = IF has_next THEN "select" ELSE "collapsed"
    /\ UNCHANGED <<schematic, rng, wfc_coords, wfc_hash, wfc_order, tiles, has_next, iterations,
                   spawned, runs, prev_tiles, prev_coords, world_vars, stitch_vars, loader_vars, draw_vars>>

(***************************************************************************)
(* mod.rs, create_chunks: the children spawned for the grid collapse       *)
(* returned.  A Tile child is its texture_id and its local translation.    *)
(***************************************************************************)
Rel(i) == (i * TILE_SIZE) + (TILE_SIZE \div 2) - (CHUNK_SIZE \div 2)

TileChild(s, t, c) ==
    [texture_id |-> IF t[c] # None THEN t[c] ELSE s.not_found,
     x |-> Rel(c[1]), y |-> Rel(c[2])]

\* mutant: cells collapse left None get no tile
chunk_children_skip(s, t) == {TileChild(s, t, c) : c \in {d \in Cells : t[d] # None}}

chunk_children(s, t) == {TileChild(s, t, c) : c \in Cells}

SpawnChunk ==
    /\ wfc_pc = "collapsed"
    /\ spawned' = chunk_children(schematic, tiles)
    /\ wfc_pc' = "spawned"
    /\ UNCHANGED <<schematic, rng, wfc_coords, wfc_hash, wfc_order, constraint_map,
                   tiles, has_next, iterations, runs, prev_tiles, prev_coords, world_vars, stitch_vars, loader_vars, draw_vars>>

\* create_chunks generates once more: the same coordinate again (the chunk
\* left the visible set and came back, or the program was started again) or
\* another chunk with the same hash; same seed and schematic
Regenerate ==
    /\ wfc_pc = "spawned"
    /\ runs < MaxRuns
    /\ runs' = runs + 1
    /\ prev_tiles' = tiles
    /\ prev_coords' = wfc_coords
    /\ \E coords \in {c \in WfcTwins : get_hash(WORLD_SEED, c) = wfc_hash}, order \in Orders :
          WfcInitState(schematic, coords, order)
    /\ UNCHANGED <<schematic, rng, world_vars, stitch_vars, loader_vars, draw_vars>>

WfcNext == Scratch \/ Select \/ Update \/ SpawnChunk \/ Regenerate

SpecWfc == WfcInit /\ [][WfcNext]_vars

\* collapse is straight-line code in one thread: each of its steps is taken
FairSpecWfc ==
    SpecWfc /\ WF_vars(Scratch) /\ WF_vars(Select) /\ WF_vars(Update)

(***************************************************************************)
(* Claims on the interior generation (checked under SpecWfc).              *)
(***************************************************************************)
Returned == wfc_pc \in {"collapsed", "spawned"}

HPairs == {p \in Cells \X Cells : p[2][1] = p[1][1] + 1 /\ p[2][2] = p[1][2]}
VPairs == {p \in Cells \X Cells : p[2][1] = p[1][1] /\ p[2][2] = p[1][2] + 1}

BothSet(p) == tiles[p[1]] # None /\ tiles[p[2]] # None

\* C1: after collapse returns, for every schematic and every pair of adjacent
\* interior cells that both hold an id, the eastward id is in the westward
\* tile's east list and the westward id in the eastward tile's west list, and
\* likewise north / south for vertical pairs.
C1_AdjacencyValid ==
    Returned =>
        /\ \A p \in HPairs : BothSet(p) =>
                /\ tiles[p[2]] \in schematic.tiles[tiles[p[1]]]["east"]
                /\ tiles[p[1]] \in schematic.tiles[tiles[p[2]]]["west"]
        /\ \A p \in VPairs : BothSet(p) =>
                /\ tiles[p[2]] \in schematic.tiles[tiles[p[1]]]["north"]
                /\ tiles[p[1]] \in schematic.tiles[tiles[p[2]]]["south"]

\* C2: two generations of the same coordinate with the same seed and schematic
\* return identical grids, whatever the enumeration orders were.
C2_Deterministic ==
    (Returned /\ runs > 1 /\ wfc_coords = prev_coords) => tiles = prev_tiles

\* C10: every interior position of a created chunk is materialised with one
\* tile whose id is a key of the schematic or the fallback id, also where
\* collapse left the cell None.
C10_InteriorComplete ==
    wfc_pc = "spawned" =>
        /\ \A c \in Cells :
              \E ch \in spawned :
                 /\ ch.x = Rel(c[1]) /\ ch.y = Rel(c[2])
                 /\ ch.texture_id = IF tiles[c] # None THEN tiles[c] ELSE schematic.not_found
        /\ \A ch \in spawned :
              ch.texture_id \in (DOMAIN schematic.tiles) \cup {schematic.not_found}
        /\ Cardinality(spawned) = CHUNK_TILE_LENGTH * CHUNK_TILE_LENGTH

\* a chunk was materialised whose grid has an uncollapsed cell
C10_Witness ==
    /\ wfc_pc = "spawned"
    /\ \E c \in Cells : tiles[c] = None
    /\ \E c \in Cells : tiles[c] # None

\* C11: with a schematic whose tile types allow only themselves on all four
\* sides, collapse returns a grid in which every cell is collapsed and all
\* cells hold the same type.
C11_Monochrome ==
    (Returned /\ schematic \in MonochromeSchematics) =>
        /\ \A c \in Cells : tiles[c] # None
        /\ \A c, d \in Cells : tiles[c] = tiles[d]

\* collapse returned for such a schematic
C11_Witness ==
    /\ wfc_pc = "collapsed"
    /\ schematic \in MonochromeSchematics
    /\ \E c \in Cells : tiles[c] # None

\* a contradiction: an uncollapsed cell whose domain propagation emptied
Contradiction(c) == tiles[c] = None /\ constraint_map[c] = {}

\* C15: after a contradiction collapse still returns: from then on the cell
\* stays None, the collapsed cells keep their values, and the run reaches
\* its return.
C15_ContradictionTolerated ==
    /\ [][(wfc_pc' # "scratch" /\ \E c \in Cells : Contradiction(c)) =>
            /\ \A c \in Cells : Contradiction(c) => tiles'[c] = None
            /\ \A d \in Cells : tiles[d] # None => tiles'[d] = tiles[d]]_vars
    /\ ((wfc_pc \in {"select", "update"} /\ \E c \in Cells : Contradiction(c))
            ~> Returned)

\* collapse returned a grid with a contradiction next to collapsed cells
C15_Witness ==
    /\ wfc_pc = "collapsed"
    /\ ~has_next
    /\ \E c \in Cells : Contradiction(c)
    /\ \E d \in Cells : tiles[d] # None

\* C19: Select never returns a cell that holds a tile id, and a cell that
\* holds an id keeps it for the rest of the run: every cell, (0,0)
\* included, is assigned at most once.
C19_AssignedOnce ==
    [][wfc_pc' # "scratch" =>
          /\ (wfc_pc = "select" /\ lowest_entropy(constraint_map) # NoCell) =>
                 tiles[lowest_entropy(constraint_map)] = None
          /\ \A c \in Cells : tiles[c] # None => tiles'[c] = tiles[c]]_vars

\* the 4-neighbours of c in the grid, each with the side of the neighbour
\* that faces c
Facing(c) ==
    {n \in Cells \X Dirs :
        \/ n[1] = <<c[1] - 1, c[2]>> /\ n[2] = "east"
        \/ n[1] = <<c[1], c[2] - 1>> /\ n[2] = "north"
        \/ n[1] = <<c[1] + 1, c[2]>> /\ n[2] = "west"
        \/ n[1] = <<c[1], c[2] + 1>> /\ n[2] = "south"}

\* C20: the id collapse_tile assigns is in the selected cell's domain of
\* that moment, hence a key of the schematic and in the facing allow-list of
\* every 4-neighbour collapsed before.
C20_DrawnFromDomain ==
    [][(wfc_pc = "select" /\ lowest_entropy(constraint_map) # NoCell) =>
          LET next == lowest_entropy(constraint_map)
          IN  /\ tiles'[next] \in constraint_map[next]
              /\ tiles'[next] \in DOMAIN schematic.tiles
              /\ \A n \in Facing(next) :
                    tiles[n[1]] # None =>
                        tiles'[next] \in schematic.tiles[tiles[n[1]]][n[2]]]_vars

\* collapse_tile has just collapsed a cell whose domain the neighbours had
\* narrowed
C20_Witness ==
    /\ wfc_pc = "update"
    /\ \E c \in Cells :
          /\ tiles[c] # None
          /\ constraint_map[c] # {}
          /\ constraint_map[c] # DOMAIN schematic.tiles
          /\ \E n \in Facing(c) : tiles[n[1]] # None

\* C21: after a propagation pass of collapse, the domain of each uncollapsed
\* cell is the id set of the schematic cut by the facing allow-list of each
\* collapsed 4-neighbour (the west neighbour's east list, the south
\* neighbour's north list, the east neighbour's west list, the north
\* neighbour's south list), and the domain of each collapsed cell is empty.
C21_DomainIsIntersection ==
    [][wfc_pc = "update" =>
          \A c \in Cells :
             constraint_map'[c] =
                IF tiles'[c] # None
                THEN {}
                ELSE {k \in DOMAIN schematic.tiles :
                        \A n \in Facing(c) :
                           tiles'[n[1]] # None =>
                              k \in schematic.tiles[tiles'[n[1]]][n[2]]}]_vars

\* Select follows a pass that cut the domain of an uncollapsed cell with two
\* collapsed neighbours
C21_Witness ==
    /\ wfc_pc = "select"
    /\ \E c \in Cells :
          /\ tiles[c] = None
          /\ constraint_map[c] # {}
          /\ constraint_map[c] # DOMAIN schematic.tiles
          /\ \E n, m \in Facing(c) : n # m /\ tiles[n[1]] # None /\ tiles[m[1]] # None

MaxFocus == 4

FocusAxis == {k * (TILE_SIZE \div 2) : k \in (0 - MaxFocus) .. MaxFocus}

RECURSIVE Xor(_, _)
\* the ^ of Rust on non-negative integers
Xor(a, b) ==
    IF a = 0 THEN b
    ELSE IF b = 0 THEN a
    ELSE ((a + b) % 2) + 2 * Xor(a \div 2, b \div 2)

STRIDE == CHUNK_SIZE + TILE_SIZE

\* offset_x / offset_y of get_chunks_in_range
offset(p) == (p - TILE_SIZE) \div STRIDE

\* the coordinate pushed for loop indices x, y
in_range_coord(pos, x, y) ==
    <<((offset(pos[1]) + x) * STRIDE) - TILE_SIZE,
      ((offset(pos[2]) + y) * STRIDE) - TILE_SIZE>>

get_chunks_in_range(pos) ==
    LET n == Xor(2 * RENDER_DISTANCE, 2)
        w == 2 * RENDER_DISTANCE + 1
    IN  [i \in 1 .. n |-> <<0, 0>>] \o
        [i \in 1 .. (w * w) |->
            in_range_coord(pos, ((i - 1) \div w) - RENDER_DISTANCE,
                                ((i - 1) % w) - RENDER_DISTANCE)]

NoAdj == <<FALSE, FALSE, FALSE, FALSE>>

\* the chunk_bundle of create_chunks: Chunk, Dirty, Transform
chunk_bundle(coords) == [coords |-> coords, dirty |-> TRUE, adj |-> NoAdj]

LiveCoords(live) == {ch.coords : ch \in BagToSet(live)}

\* in_range == transform for some live chunk
present(c, live) == c \in LiveCoords(live)

\* the spawn commands of create_chunks: one per entry of chunks_in_range that
\* no chunk of the query equals
create_chunks(cir, live) ==
    LET missing == {i \in 1 .. Len(cir) : ~present(cir[i], live)}
    IN  [b \in {chunk_bundle(cir[i]) : i \in missing} |->
            Cardinality({i \in missing : cir[i] = b.coords})]

is_stale(cir, ch) == \A i \in 1 .. Len(cir) : cir[i] # ch.coords

\* the despawn commands of remove_stale_chunks
remove_stale_chunks(cir, live) == {ch \in BagToSet(live) : is_stale(cir, ch)}

\* get_connected_chunks: the coordinate looked for in each slot of the tuple
\* (north, east, south, west)
connected_coord(coords, slot) ==
    CASE slot = 1 -> <<coords[1], coords[2] + CHUNK_SIZE + TILE_SIZE>>
      [] slot = 2 -> <<coords[1] + CHUNK_SIZE + TILE_SIZE, coords[2]>>
      [] slot = 3 -> <<coords[1] - CHUNK_SIZE - TILE_SIZE, coords[2]>>
      [] slot = 4 -> <<coords[1], coords[2] - CHUNK_SIZE - TILE_SIZE>>

\* which slots get_connected_chunks fills
get_connected_chunks(coords, live) ==
    [slot \in 1 .. 4 |-> connected_coord(coords, slot) \in LiveCoords(live)]

\* the commands of gen_chunk_stitches for one dirty chunk: the ring children
\* and remove::<Dirty>()
\* mutant: the neighbour lookup also sees the chunks whose spawn the tick requested
stitched_pending(ch, live) ==
    [ch EXCEPT !.dirty = FALSE, !.adj = get_connected_chunks(ch.coords, live (+) cmd_spawn)]

stitched(ch, live) ==
    [ch EXCEPT !.dirty = FALSE, !.adj = get_connected_chunks(ch.coords, live)]

\* mutant: the pass takes every chunk, not only those of the Dirty query
gen_chunk_stitches_all(live) == {ch \in BagToSet(live) : TRUE}

gen_chunk_stitches(live) == {ch \in BagToSet(live) : ch.dirty}

\* the bag b with every record r replaced by f[r]
BagImage(b, f) ==
    [r \in {f[x] : x \in BagToSet(b)} |->
        LET src == {x \in BagToSet(b) : f[x] = r}
            RECURSIVE Sum(_)
            Sum(S) == IF S = {} THEN 0
                      ELSE LET x == CHOOSE y \in S : TRUE IN b[x] + Sum(S \ {x})
        IN  Sum(src)]

\* the live chunks after the tick's commands: despawns, the stitched chunks'
\* updates, spawns
apply_deferred(live, spawn, despawn, stitch) ==
    LET kept == [r \in BagToSet(live) \ despawn |-> live[r]]
        upd == [r \in BagToSet(kept) |-> IF r \in stitch THEN stitched(r, live) ELSE r]
    IN  BagImage(kept, upd) (+) spawn

\* the interior generation part of the state while the lifecycle is followed
WfcRest ==
    /\ rng = [n \in 1 .. NumTiles |-> 0]
    /\ wfc_coords = <<0, 0>>
    /\ wfc_hash = 0
    /\ wfc_order = [i \in 1 .. NumTiles |-> i - 1]
    /\ constraint_map = [c \in Cells |-> {}]
    /\ tiles = [c \in Cells |-> None]
    /\ has_next = FALSE
    /\ iterations = 0
    /\ wfc_pc = "idle"
    /\ spawned = {}
    /\ runs = 0
    /\ prev_tiles = [c \in Cells |-> None]
    /\ prev_coords = <<0, 0>>

WfcIdle ==
    /\ schematic = [not_found |-> 0, tiles |-> [t \in Keys |-> TileSchematic({}, t)]]
    /\ WfcRest

WorldInit ==
    /\ WfcIdle
    /\ WorldIdle
    /\ watch = NoWatch
    /\ LoaderIdle
    /\ DrawIdle
    /\ StitchIdle

\* the camera follows the player between two runs of the Update schedule
MoveFocus ==
    /\ ~ran_gen /\ ~ran_stitch
    /\ \E x \in FocusAxis, y \in FocusAxis :
          /\ <<x, y>> # focus
          /\ focus' = <<x, y>>
    /\ UNCHANGED <<chunks, in_range, cmd_spawn, cmd_despawn, cmd_stitch, ran_gen,
                   ran_stitch, watch, wfc_vars, stitch_vars, loader_vars, draw_vars>>

\* system gen_chunks: get_chunks_in_range, create_chunks, remove_stale_chunks;
\* the query is the live set as of the start of the tick
GenChunks ==
    /\ ~ran_gen
    /\ in_range' = get_chunks_in_range(focus)
    /\ cmd_spawn' = create_chunks(in_range', chunks)
    /\ cmd_despawn' = remove_stale_chunks(in_range', chunks)
    /\ ran_gen' = TRUE
    /\ UNCHANGED <<focus, chunks, cmd_stitch, ran_stitch, watch, wfc_vars, stitch_vars, loader_vars, draw_vars>>

\* system gen_chunk_stitches: every chunk of the Dirty query is stitched
GenChunkStitches ==
    /\ ~ran_stitch
    /\ cmd_stitch' = gen_chunk_stitches(chunks)
    /\ ran_stitch' = TRUE
    /\ UNCHANGED <<focus, chunks, in_range, cmd_spawn, cmd_despawn, ran_gen, watch,
                   wfc_vars, stitch_vars, loader_vars, draw_vars>>

\* the end of the Update schedule: the systems' Commands take effect
ApplyDeferred ==
    /\ ran_gen /\ ran_stitch
    /\ chunks' = apply_deferred(chunks, cmd_spawn, cmd_despawn, cmd_stitch)
    /\ cmd_spawn' = EmptyBag
    /\ cmd_despawn' = {}
    /\ cmd_stitch' = {}
    /\ ran_gen' = FALSE
    /\ ran_stitch' = FALSE
    /\ UNCHANGED <<focus, in_range, watch, wfc_vars, stitch_vars, loader_vars, draw_vars>>

WorldNext == MoveFocus \/ GenChunks \/ GenChunkStitches \/ ApplyDeferred

SpecWorld == WorldInit /\ [][WorldNext]_vars

\* the host runs the Update schedule every frame: each system runs in every
\* tick and the commands are applied at its end
\* the lattice coordinates chunks can have in SpecWorld, and the origin
WorldAxis ==
    {(k * STRIDE) - TILE_SIZE :
        k \in (offset(0 - MaxFocus * (TILE_SIZE \div 2)) - RENDER_DISTANCE) ..
              (offset(MaxFocus * (TILE_SIZE \div 2)) + RENDER_DISTANCE)}

WorldCoords == (WorldAxis \X WorldAxis) \cup {<<0, 0>>}

\* The camera moves along the x axis only, between positions two tiles
\* apart: a part of SpecWorld's behaviours.
FairFocusAxis == {x \in FocusAxis : x % (2 * TILE_SIZE) = 0 /\ x <= 2 * TILE_SIZE /\ x >= 0 - 2 * TILE_SIZE}

MoveFocusX ==
    /\ ~ran_gen /\ ~ran_stitch
    /\ \E x \in FairFocusAxis :
          /\ x # focus[1]
          /\ focus' = <<x, focus[2]>>
    /\ UNCHANGED <<chunks, in_range, cmd_spawn, cmd_despawn, cmd_stitch, ran_gen,
                   ran_stitch, watch, wfc_vars, stitch_vars, loader_vars, draw_vars>>

FairWorldNext == MoveFocusX \/ GenChunks \/ GenChunkStitches \/ ApplyDeferred

FairWorldInit ==
    /\ WfcIdle
    /\ WorldIdle
    /\ watch \in (WorldAxis \X {0 - TILE_SIZE}) \X (1 .. 4)
    /\ LoaderIdle
    /\ DrawIdle
    /\ StitchIdle

FairSpecWorld ==
    /\ FairWorldInit
    /\ [][FairWorldNext]_vars
    /\ WF_vars(GenChunks)
    /\ WF_vars(GenChunkStitches)
    /\ WF_vars(ApplyDeferred)

(***************************************************************************)
(* Claims on the lifecycle (checked under SpecWorld / FairSpecWorld).      *)
(***************************************************************************)
\* the chunk coordinate the visible square of get_chunks_in_range is centred on
visible_centre(pos) == in_range_coord(pos, 0, 0)

\* the (2R+1) x (2R+1) square of lattice coordinates centred on c
Square(c) ==
    {<<c[1] + i * STRIDE, c[2] + j * STRIDE>> :
        i \in (0 - RENDER_DISTANCE) .. RENDER_DISTANCE,
        j \in (0 - RENDER_DISTANCE) .. RENDER_DISTANCE}

SeqRange(q) == {q[i] : i \in 1 .. Len(q)}

\* C4: get_chunks_in_range returns exactly (2R+1)^2 coordinates, pairwise
\* distinct, and they are exactly the square centred on the focus chunk.
C4_VisibleSquare ==
    ran_gen =>
        /\ Len(in_range) = (2 * RENDER_DISTANCE + 1) * (2 * RENDER_DISTANCE + 1)
        /\ \A i, j \in 1 .. Len(in_range) : i # j => in_range[i] # in_range[j]
        /\ SeqRange(in_range) = Square(visible_centre(focus))

\* number of live chunks at coordinate c
CopiesAt(live, c) ==
    LET at == {ch \in BagToSet(live) : ch.coords = c}
        RECURSIVE Sum(_)
        Sum(S) == IF S = {} THEN 0
                  ELSE LET x == CHOOSE y \in S : TRUE IN live[x] + Sum(S \ {x})
    IN  Sum(at)

\* C5: a coordinate that has a live chunk, or whose spawn was requested
\* earlier in the tick, is never generated again: at most one generation per
\* coordinate per tick, and never two live chunks with the same coordinate.
C5_GeneratedOnce ==
    /\ \A b \in BagToSet(cmd_spawn) :
          cmd_spawn[b] = 1 /\ b.coords \notin LiveCoords(chunks)
    /\ \A c \in LiveCoords(chunks) : CopiesAt(chunks, c) = 1

\* C6: the dirty flag is cleared only by a pass that resolved the whole ring:
\* a chunk stitched while a neighbour was missing is still dirty.
C6_DirtyUntilResolved ==
    \A ch \in BagToSet(chunks) :
        ~ch.dirty => \A slot \in 1 .. 4 : ch.adj[slot]

\* a stitched chunk at c has an unresolved side slot whose neighbour is live
LateNeighbour(c, slot) ==
    /\ connected_coord(c, slot) \in LiveCoords(chunks)
    /\ \E ch \in BagToSet(chunks) : ch.coords = c /\ ~ch.dirty /\ ~ch.adj[slot]

\* the side has been stitched against the neighbour, or one of the two is gone
SideResolved(c, slot) ==
    \/ c \notin LiveCoords(chunks)
    \/ connected_coord(c, slot) \notin LiveCoords(chunks)
    \/ \A ch \in BagToSet(chunks) : ch.coords = c => ch.adj[slot]

\* C7: when a neighbour appears on a side that had none when the chunk was
\* first stitched, a later tick stitches that side against the neighbour.
\* (watch is any chunk coordinate of the lattice row the camera moves along
\* and any of the four sides)
C7_RetryLater ==
    LateNeighbour(watch[1], watch[2]) ~> SideResolved(watch[1], watch[2])

\* C8: remove_stale_chunks requests the destruction of exactly the live
\* chunks outside the visible square, so none stays outside it.
C8_StaleIff ==
    ran_gen =>
        cmd_despawn =
            {ch \in BagToSet(chunks) : ch.coords \notin Square(visible_centre(focus))}

\* the half-open chunk-sized square with origin c contains p
InExtent(c, p) ==
    /\ c[1] <= p[1] /\ p[1] < c[1] + CHUNK_SIZE
    /\ c[2] <= p[2] /\ p[2] < c[2] + CHUNK_SIZE

\* the step that ends a tick
TickEnds == ran_gen /\ ran_stitch /\ ~ran_gen'

\* C17: when a tick's commands have taken effect, every coordinate of the
\* visible set (the square centred on the chunk that contains the focus) has
\* a live chunk, and every chunk whose spawn the tick requested is live and
\* dirty.
C17_VisibleLiveAndDirty ==
    [][TickEnds =>
          /\ \A c0 \in WorldAxis \X WorldAxis :
                 InExtent(c0, focus) => Square(c0) \subseteq LiveCoords(chunks')
          /\ \A b \in BagToSet(cmd_spawn) :
                 /\ b \in BagToSet(chunks')
                 /\ chunks'[b] >= cmd_spawn[b]
                 /\ b.dirty]_vars

\* the same for the coordinates gen_chunks computed in the tick
ComputedLiveAndDirty ==
    [][TickEnds =>
          /\ SeqRange(in_range) \subseteq LiveCoords(chunks')
          /\ \A b \in BagToSet(cmd_spawn) :
                 /\ b \in BagToSet(chunks')
                 /\ chunks'[b] >= cmd_spawn[b]
                 /\ b.dirty]_vars

\* C18: a chunk whose dirty flag a stitching pass has cleared is not changed
\* by any later step: its record (the sides whose ring was stitched, the
\* flag) stays as it is until the chunk is destroyed, and it is not stitched
\* again.
C18_FrozenOnceStitched ==
    [][\A r \in BagToSet(chunks) :
          ~r.dirty =>
             /\ r \notin cmd_stitch'
             /\ \/ r \in BagToSet(chunks') /\ chunks'[r] >= chunks[r]
                \/ TickEnds /\ r \in cmd_despawn /\ r.coords \notin LiveCoords(chunks')]_vars

\* a stitched chunk has lived through a second tick in which a neighbour it
\* lacked was live
C18_Witness ==
    /\ ~ran_gen /\ ~ran_stitch
    /\ \E r \in BagToSet(chunks), slot \in 1 .. 4 :
          /\ ~r.dirty
          /\ ~r.adj[slot]
          /\ \E n \in BagToSet(chunks) :
                n.coords = connected_coord(r.coords, slot) /\ ~n.dirty

\* C24: get_connected_chunks fills the north, east, south and west slot of a
\* chunk at (x, y) exactly when a live chunk is at (x, y + stride),
\* (x + stride, y), (x, y - stride) and (x - stride, y).
C24_NeighbourSlots ==
    ran_stitch =>
        \A ch \in cmd_stitch :
            LET adj == get_connected_chunks(ch.coords, chunks)
                x == ch.coords[1]
                y == ch.coords[2]
            IN  /\ adj[1] <=> <<x, y + STRIDE>> \in LiveCoords(chunks)
                /\ adj[2] <=> <<x + STRIDE, y>> \in LiveCoords(chunks)
                /\ adj[3] <=> <<x, y - STRIDE>> \in LiveCoords(chunks)
                /\ adj[4] <=> <<x - STRIDE, y>> \in LiveCoords(chunks)

\* C9: the centre of the visible square is the origin of the chunk whose
\* half-open extent contains the focus, and two positions get the same centre
\* iff they lie in the same such square.
C9_CentreContainsFocus ==
    ran_gen =>
    /\ InExtent(visible_centre(focus), focus)
    /\ \A p \in FocusAxis \X FocusAxis :
          (visible_centre(p) = visible_centre(focus)) <=>
              (\E c \in WorldCoords : InExtent(c, p) /\ InExtent(c, focus))

(***************************************************************************)
(* stitcher.rs and gen_chunk_stitches of mod.rs: one iteration of the for  *)
(* loop over the dirty chunks (Stitcher::init, stitch, the ring children). *)
(* Every pass of a tick reads the chunks as they were when the tick        *)
(* started, so the passes of one tick do not influence each other and one  *)
(* of them is followed.                                                    *)
(***************************************************************************)
\* WaveFunctionCollapse::collapse run to its return
RECURSIVE collapse_loop(_, _, _, _, _)
collapse_loop(s, t, cm, order, table) ==
    LET next == lowest_entropy(cm)
    IN  IF next = NoCell
        THEN t
        ELSE LET t2 == [t EXCEPT ![next] = collapse_tile(cm, order, table, next)]
             IN  collapse_loop(s, t2, update_constraint_map(s, t2, cm), order, table)

collapse(s, korder, order, table) ==
    collapse_loop(s,
                  [c \in Cells |->
                      IF c = <<0, 0>>
                      THEN korder[table[AsU8(Cardinality(DOMAIN s.tiles))] + 1]
                      ELSE None],
                  [c \in Cells |-> init_constraints(s)], order, table)

RingLen == 4 * CHUNK_TILE_LENGTH + 4

Ring == 0 .. (RingLen - 1)

side_of(idx) == idx \div (CHUNK_TILE_LENGTH + 1)

rank_of(idx) == idx % (CHUNK_TILE_LENGTH + 1)

\* mutant: the east side starts one tile further south
get_perimeter_world_coord_low(coords, side, rank) ==
    CASE side = 0 -> <<coords[1] - TILE_SIZE + (rank * TILE_SIZE), coords[2] + CHUNK_SIZE>>
      [] side = 1 -> <<coords[1] + CHUNK_SIZE,
                       coords[2] + CHUNK_SIZE - TILE_SIZE - (rank * TILE_SIZE)>>
      [] side = 2 -> <<coords[1] + CHUNK_SIZE - (rank * TILE_SIZE), coords[2] - TILE_SIZE>>
      [] OTHER -> <<coords[1] - TILE_SIZE, coords[2] - TILE_SIZE + (rank * TILE_SIZE)>>

\* mutant: the west side starts at the chunk's own south row
get_perimeter_world_coord_flat(coords, side, rank) ==
    CASE side = 0 -> <<coords[1] - TILE_SIZE + (rank * TILE_SIZE), coords[2] + CHUNK_SIZE>>
      [] side = 1 -> <<coords[1] + CHUNK_SIZE, coords[2] + CHUNK_SIZE - (rank * TILE_SIZE)>>
      [] side = 2 -> <<coords[1] + CHUNK_SIZE - (rank * TILE_SIZE), coords[2] - TILE_SIZE>>
      [] OTHER -> <<coords[1] - TILE_SIZE, coords[2] + (rank * TILE_SIZE)>>

get_perimeter_world_coord(coords, side, rank) ==
    CASE side = 0 -> <<coords[1] - TILE_SIZE + (rank * TILE_SIZE), coords[2] + CHUNK_SIZE>>
      [] side = 1 -> <<coords[1] + CHUNK_SIZE, coords[2] + CHUNK_SIZE - (rank * TILE_SIZE)>>
      [] side = 2 -> <<coords[1] + CHUNK_SIZE - (rank * TILE_SIZE), coords[2] - TILE_SIZE>>
      [] OTHER -> <<coords[1] - TILE_SIZE, coords[2] - TILE_SIZE + (rank * TILE_SIZE)>>

\* the tuple get_connected_chunks returns: per slot, Some(get_chunk_tiles) or None
Adjacencies(coords, live) ==
    [slot \in 1 .. 4 |->
        IF connected_coord(coords, slot) \in DOMAIN live
        THEN [some |-> TRUE, tiles |-> live[connected_coord(coords, slot)]]
        ELSE [some |-> FALSE, tiles |-> {}]]


\* the side / rank condition of the b-th arm of the else-if chains
\* mutant: each adjacency is tested for the side after its own
arm_next(b, side, rank) ==
    CASE b = 1 -> side = 1 \/ (side = 2 /\ rank = 0)
      [] b = 2 -> side = 2 \/ (side = 3 /\ rank = 0)
      [] b = 3 -> side = 3 \/ (side = 0 /\ rank = 0)
      [] OTHER -> side = 0 \/ (side = 1 /\ rank = 0)

arm(b, side, rank) ==
    CASE b = 1 -> side = 0 \/ (side = 1 /\ rank = 0)
      [] b = 2 -> side = 1 \/ (side = 2 /\ rank = 0)
      [] b = 3 -> side = 2 \/ (side = 3 /\ rank = 0)
      [] OTHER -> side = 3 \/ (side = 0 /\ rank = 0)

\* a ring cell starts unconstrained when an arm holds whose adjacency is Some
init_stitching_constaints(s, adj) ==
    [idx \in Ring |->
        IF \E b \in 1 .. 4 : adj[b].some /\ arm(b, side_of(idx), rank_of(idx))
        THEN DOMAIN s.tiles
        ELSE {}]

\* which arm of update_constraint_map's chain handles the ring cell (there the
\* adjacency is tested inside the arm)
branch(side, rank) ==
    IF arm(1, side, rank) THEN 1
    ELSE IF arm(2, side, rank) THEN 2
    ELSE IF arm(3, side, rank) THEN 3
    ELSE 4

\* (transform.translation.x - (TILE_SIZE as f32 / 2.)) as i64, and y
TileX(t) == t.x - (TILE_SIZE \div 2)

TileY(t) == t.y - (TILE_SIZE \div 2)

\* the tiles of the connected chunk of slot b that the loop of branch b matches
adj_match(b, p, ts) ==
    {t \in ts :
        CASE b = 1 -> TileX(t) = p[1] /\ TileY(t) - TILE_SIZE = p[2]
          [] b = 2 -> TileX(t) - TILE_SIZE = p[1] /\ TileY(t) = p[2]
          [] b = 3 -> TileX(t) = p[1] /\ TileY(t) + TILE_SIZE = p[2]
          [] OTHER -> TileX(t) = p[1] + TILE_SIZE /\ TileY(t) = p[2]}

\* the allow-list branch b takes from a matched tile of the connected chunk
adj_dir(b) ==
    CASE b = 1 -> "south"
      [] b = 2 -> "west"
      [] b = 3 -> "north"
      [] OTHER -> "east"

\* the tiles of the chunk itself that the loop of branch b matches (rank != 0)
chunk_match(b, p, ts) ==
    {t \in ts :
        CASE b = 1 -> TileX(t) = p[1] /\ TileY(t) + TILE_SIZE = p[2]
          [] b = 2 -> TileX(t) + TILE_SIZE = p[1] /\ TileY(t) = p[2]
          [] b = 3 -> TileX(t) = p[1] /\ TileY(t) - TILE_SIZE = p[2]
          [] OTHER -> TileX(t) - TILE_SIZE = p[1] /\ TileY(t) = p[2]}

\* the tiles whose allow-list the first part of the loop body retains by:
\* pairs of a matched tile and the direction taken from it
matched(coords, chunk, adj, idx) ==
    LET side == side_of(idx)
        rank == rank_of(idx)
        b == branch(side, rank)
        p == get_perimeter_world_coord(coords, side, rank)
    IN  (IF adj[b].some
         THEN {<<t, adj_dir(b)>> : t \in adj_match(b, p, adj[b].tiles)}
         ELSE {})
        \cup
        (IF rank # 0
         THEN {<<t, "south">> : t \in chunk_match(b, p, chunk)}
         ELSE {})

\* "Check before and after idx": tested is the ring cell whose is_some() is
\* tested, used the ring cell whose tile is unwrapped, dir the list taken
ring_checks(idx) ==
    LET side == side_of(idx)
        rank == rank_of(idx)
        before(d) == [tested |-> idx - 1, used |-> idx - 1, dir |-> d]
        after(d) == [tested |-> idx + 1, used |-> idx + 1, dir |-> d]
    IN  CASE side = 0 /\ rank = 0 ->
                {[tested |-> RingLen - 1, used |-> RingLen - 1, dir |-> "north"],
                 after("west")}
          [] side = 0 /\ rank # 0 -> {before("east"), after("west")}
          [] side = 1 /\ rank = 0 -> {before("north"), after("north")}
          [] side = 1 /\ rank # 0 -> {before("south"), after("north")}
          [] side = 2 /\ rank = 0 -> {before("south"), after("east")}
          [] side = 2 /\ rank # 0 -> {before("west"), after("east")}
          [] side = 3 /\ rank = 0 ->
                {before("north"), [tested |-> idx + 1, used |-> 0, dir |-> "west"]}
          [] side = 3 /\ rank = CHUNK_TILE_LENGTH ->
                {before("north"), [tested |-> 0, used |-> 0, dir |-> "south"]}
          [] OTHER -> {before("north"), after("south")}

\* the ring cells the loop of update_constraint_map does not skip
visited(t, cm) == {idx \in Ring : cm[idx] # {} /\ t[idx] = None}

\* update_constraint_map panics: a matched tile's texture_id is no key of the
\* schematic, or None is unwrapped
stitch_panics(s, coords, chunk, adj, t, cm) ==
    \E idx \in visited(t, cm) :
        \/ \E m \in matched(coords, chunk, adj, idx) :
                m[1].texture_id \notin DOMAIN s.tiles
        \/ \E ck \in ring_checks(idx) : t[ck.tested] # None /\ t[ck.used] = None

\* mutant: the domain of an uncollapsed cell is recomputed from all the keys
stitch_update_cell_reset(s, coords, chunk, adj, t, cm, idx) ==
    IF t[idx] # None
    THEN {}
    ELSE {k \in DOMAIN s.tiles :
            /\ \A m \in matched(coords, chunk, adj, idx) :
                  k \in s.tiles[m[1].texture_id][m[2]]
            /\ \A ck \in ring_checks(idx) :
                  t[ck.tested] # None => k \in s.tiles[t[ck.used]][ck.dir]}

\* mutant: the domain of a collapsed cell is kept
stitch_update_cell_noclear(s, coords, chunk, adj, t, cm, idx) ==
    IF cm[idx] = {}
    THEN {}
    ELSE {k \in cm[idx] :
            /\ \A m \in matched(coords, chunk, adj, idx) :
                  k \in s.tiles[m[1].texture_id][m[2]]
            /\ \A ck \in ring_checks(idx) :
                  t[ck.tested] # None => k \in s.tiles[t[ck.used]][ck.dir]}

stitch_update_cell(s, coords, chunk, adj, t, cm, idx) ==
    IF cm[idx] = {} \/ t[idx] # None
    THEN {}
    ELSE {k \in cm[idx] :
            /\ \A m \in matched(coords, chunk, adj, idx) :
                  k \in s.tiles[m[1].texture_id][m[2]]
            /\ \A ck \in ring_checks(idx) :
                  t[ck.tested] # None => k \in s.tiles[t[ck.used]][ck.dir]}

stitch_update_constraint_map(s, coords, chunk, adj, t, cm) ==
    [idx \in Ring |-> stitch_update_cell(s, coords, chunk, adj, t, cm, idx)]

RECURSIVE stitch_entropy_scan_last(_, _, _, _)
\* mutant: on a tie the later ring cell wins
stitch_entropy_scan_last(cm, idx, lowest, index) ==
    IF idx >= RingLen
    THEN index
    ELSE LET n_constraints == Cardinality(cm[idx])
         IN  IF n_constraints > 0 /\ (lowest = 0 \/ n_constraints <= lowest)
             THEN stitch_entropy_scan_last(cm, idx + 1, n_constraints, idx)
             ELSE stitch_entropy_scan_last(cm, idx + 1, lowest, index)

\* mutant: the last cell of the smallest non-empty domain
stitch_lowest_entropy_last(cm) == stitch_entropy_scan_last(cm, 0, 0, None)

\* Stitcher::lowest_entropy: the first cell of the smallest non-empty domain
RECURSIVE stitch_entropy_scan(_, _, _, _)
\* the loop of Stitcher::lowest_entropy from ring index idx on
stitch_entropy_scan(cm, idx, lowest, index) ==
    IF idx >= RingLen
    THEN index
    ELSE LET n_constraints == Cardinality(cm[idx])
         IN  IF n_constraints > 0 /\ (lowest = 0 \/ n_constraints < lowest)
             THEN stitch_entropy_scan(cm, idx + 1, n_constraints, idx)
             ELSE stitch_entropy_scan(cm, idx + 1, lowest, index)

stitch_lowest_entropy(cm) == stitch_entropy_scan(cm, 0, 0, None)

\* the ring child gen_chunk_stitches spawns for the ring cell idx
RingChild(s, coords, t, idx) ==
    LET p == get_perimeter_world_coord(coords, side_of(idx), rank_of(idx))
    IN  [texture_id |-> IF t[idx] # None THEN t[idx] ELSE s.not_found,
         x |-> (p[1] - coords[1]) + (TILE_SIZE \div 2) - (CHUNK_SIZE \div 2),
         y |-> (p[2] - coords[2]) + (TILE_SIZE \div 2) - (CHUNK_SIZE \div 2)]

ring_children(s, coords, t) == {RingChild(s, coords, t, idx) : idx \in Ring}

(***************************************************************************)
(* The scene: the chunks of the first visible square (camera at the        *)
(* origin) in its north-east corner: two neighbours of one row and the     *)
(* chunks get_connected_chunks finds for either.  All were spawned by the  *)
(* first tick's create_chunks, and all are dirty in the second.  Each       *)
(* interior is what collapse returns for the chunk's hash; the scene's     *)
(* HashSets enumerate their ids in one order, any order being possible.    *)
(***************************************************************************)
FirstSquare == SeqRange(get_chunks_in_range(<<0, 0>>))

\* the north-east corner chunk of the first square and its western neighbour
StitchEast ==
    CHOOSE c \in FirstSquare : \A d \in FirstSquare : d[1] <= c[1] /\ d[2] <= c[2]

StitchWest == <<StitchEast[1] - STRIDE, StitchEast[2]>>

StitchPair == {StitchWest, StitchEast}

StitchScene ==
    {c \in FirstSquare :
        \/ c \in StitchPair
        \/ \E q \in StitchPair, slot \in 1 .. 4 : connected_coord(q, slot) = c}

StitchHashes == {get_hash(WORLD_SEED, c) : c \in StitchScene}

\* the schematics of the scene: at most one entry missing from the allow-lists
StitchSchematics ==
    { [not_found |-> nf, tiles |-> [t \in Keys |-> TileSchematic(removed, t)]] :
        nf \in {0, NumTiles},
        removed \in {r \in RemovedSets : Cardinality(r) <= 1} }

StitchSceneInit ==
    /\ schematic \in StitchSchematics
    /\ WfcRest
    /\ WorldIdle
    /\ watch = NoWatch
    /\ LoaderIdle
    /\ DrawIdle
    /\ st_live \in
          { [c \in StitchScene |->
                chunk_children(schematic,
                    collapse(schematic, korder, order, tables[get_hash(WORLD_SEED, c)]))] :
              korder \in Orders, order \in Orders,
              tables \in [StitchHashes -> {t \in RngTables : ValidRng(t)}] }
    /\ st_coords \in StitchPair
    /\ st_chunk = {}
    /\ st_adj = <<>>
    /\ st_constraint_map = <<>>
    /\ st_tiles = <<>>
    /\ st_pc = "dirty"
    /\ st_ring = {}
    /\ st_order = <<>>

\* get_chunk_tiles, get_connected_chunks, Stitcher::init
StitcherInit ==
    /\ st_pc = "dirty"
    /\ st_chunk' = st_live[st_coords]
    /\ st_adj' = Adjacencies(st_coords, st_live)
    /\ st_constraint_map' = init_stitching_constaints(schematic, st_adj')
    /\ st_tiles' = [idx \in Ring |-> None]
    /\ st_pc' = "stitch"
    /\ UNCHANGED <<st_live, st_coords, st_ring, st_order, wfc_vars, world_vars, loader_vars, draw_vars>>

\* one iteration of stitch's while let: lowest_entropy, collapse_tile (a draw
\* of thread_rng: any element of the domain), update_constraint_map
StitchStep ==
    /\ st_pc = "stitch"
    /\ LET next == stitch_lowest_entropy(st_constraint_map)
       IN  IF next = None
           THEN /\ st_pc' = "stitched"
                /\ UNCHANGED <<st_tiles, st_constraint_map, st_order>>
           ELSE \E k \in st_constraint_map[next] :
                   /\ st_tiles' = [st_tiles EXCEPT ![next] = k]
                   /\ st_order' = Append(st_order, next)
                   /\ IF stitch_panics(schematic, st_coords, st_chunk, st_adj,
                                       st_tiles', st_constraint_map)
                      THEN /\ st_pc' = "panic"
                           /\ UNCHANGED st_constraint_map
                      ELSE /\ st_pc' = "stitch"
                           /\ st_constraint_map' =
                                 stitch_update_constraint_map(schematic, st_coords,
                                     st_chunk, st_adj, st_tiles', st_constraint_map)
    /\ UNCHANGED <<st_live, st_coords, st_chunk, st_adj, st_ring, wfc_vars, world_vars, loader_vars, draw_vars>>

\* with_children: the ring children, not_found where the cell is None
StitchSpawn ==
    /\ st_pc = "stitched"
    /\ st_ring' = ring_children(schematic, st_coords, st_tiles)
    /\ st_pc' = "spawned"
    /\ UNCHANGED <<st_live, st_coords, st_chunk, st_adj, st_constraint_map, st_tiles,
                   st_order, wfc_vars, world_vars, loader_vars, draw_vars>>

StitchNext == StitcherInit \/ StitchStep \/ StitchSpawn

SpecStitch == StitchSceneInit /\ [][StitchNext]_vars

(***************************************************************************)
(* A second scene: the chunk at (-TILE_SIZE, -TILE_SIZE) of the first     *)
(* visible square, whose four neighbours are live, with schematics in      *)
(* which an allow-list is empty (generation then leaves cells None).       *)
(***************************************************************************)
OriginChunk == <<0 - TILE_SIZE, 0 - TILE_SIZE>>

OriginScene ==
    {c \in FirstSquare :
        c = OriginChunk \/ \E slot \in 1 .. 4 : connected_coord(OriginChunk, slot) = c}

OriginHashes == {get_hash(WORLD_SEED, c) : c \in OriginScene}

OriginSchematics ==
    {s \in SchematicAsset : \E t \in Keys, d \in Dirs : s.tiles[t][d] = {}}

OriginSceneInit ==
    /\ schematic \in OriginSchematics
    /\ WfcRest
    /\ WorldIdle
    /\ watch = NoWatch
    /\ LoaderIdle
    /\ DrawIdle
    /\ st_live \in
          { [c \in OriginScene |->
                chunk_children(schematic,
                    collapse(schematic, korder, order, tables[get_hash(WORLD_SEED, c)]))] :
              korder \in Orders, order \in Orders,
              tables \in [OriginHashes -> {t \in RngTables : ValidRng(t)}] }
    /\ st_coords = OriginChunk
    /\ st_chunk = {}
    /\ st_adj = <<>>
    /\ st_constraint_map = <<>>
    /\ st_tiles = <<>>
    /\ st_pc = "dirty"
    /\ st_ring = {}
    /\ st_order = <<>>

SpecStitchOrigin == OriginSceneInit /\ [][StitchNext]_vars

(***************************************************************************)
(* Both passes on one chunk: create_chunks collapses the interior of a     *)
(* chunk of the pair and spawns it; gen_chunk_stitches, which runs after   *)
(* it, stitches that chunk.  The live chunk of the scene at that           *)
(* coordinate is the grid this WaveFunctionCollapse produces (the same     *)
(* table and enumeration order).                                           *)
(***************************************************************************)
GenerateInit ==
    /\ schematic \in StitchSchematics
    /\ rng \in {t \in RngTables : ValidRng(t)}
    /\ st_coords \in StitchPair
    /\ wfc_coords = st_coords
    /\ wfc_hash = get_hash(WORLD_SEED, wfc_coords)
    /\ wfc_order \in Orders
    /\ constraint_map = [c \in Cells |-> init_constraints(schematic)]
    /\ tiles = [c \in Cells |-> None]
    /\ has_next = TRUE
    /\ iterations = 0
    /\ wfc_pc = "scratch"
    /\ spawned = {}
    /\ runs = 1
    /\ prev_tiles = [c \in Cells |-> None]
    /\ prev_coords = wfc_coords
    /\ WorldIdle
    /\ watch = NoWatch
    /\ LoaderIdle
    /\ DrawIdle
    /\ st_live = [c \in StitchScene |->
                    chunk_children(schematic, collapse(schematic, wfc_order, wfc_order, rng))]
    /\ st_chunk = {}
    /\ st_adj = <<>>
    /\ st_constraint_map = <<>>
    /\ st_tiles = <<>>
    /\ st_pc = "dirty"
    /\ st_ring = {}
    /\ st_order = <<>>

\* gen_chunk_stitches comes after create_chunks has spawned the chunk
StitchTick == wfc_pc = "spawned" /\ StitchNext

GenerateNext == Scratch \/ Select \/ Update \/ SpawnChunk \/ StitchTick

SpecGenerate == GenerateInit /\ [][GenerateNext]_vars

(***************************************************************************)
(* Claims on the stitching (checked under SpecStitch).                     *)
(***************************************************************************)
\* world position of the lower left corner of a chunk's Tile child
WorldPos(c, t) ==
    <<c[1] + (CHUNK_SIZE \div 2) + TileX(t), c[2] + (CHUNK_SIZE \div 2) + TileY(t)>>

\* q is the cell next to p in direction d
NextTo(p, d, q) ==
    CASE d = "north" -> q = <<p[1], p[2] + TILE_SIZE>>
      [] d = "east" -> q = <<p[1] + TILE_SIZE, p[2]>>
      [] d = "south" -> q = <<p[1], p[2] - TILE_SIZE>>
      [] OTHER -> q = <<p[1] - TILE_SIZE, p[2]>>

\* C3: for the two neighbouring chunks, once stitched, every border tile a
\* chunk's pass placed is in the allow-list, for the facing direction, of the
\* other chunk's tile that lies next to it.
C3_StitchConsistent ==
    st_pc = "spawned" =>
        \A n \in StitchPair \ {st_coords} :
        \A t \in st_ring, u \in st_live[n], d \in Dirs :
            (/\ NextTo(WorldPos(n, u), d, WorldPos(st_coords, t))
             /\ u.texture_id \in DOMAIN schematic.tiles)
            => t.texture_id \in schematic.tiles[u.texture_id][d]

\* the tiles update_constraint_map looked up in the schematic when it faulted
FaultyLookups ==
    {m \in UNION {matched(st_coords, st_chunk, st_adj, idx) :
                     idx \in visited(st_tiles, st_constraint_map)} :
        m[1].texture_id \notin DOMAIN schematic.tiles}

\* C12: every identifier used to index the schematic's tile map is one of its
\* keys, the ids of tiles read from the chunk and from its neighbours
\* included: update_constraint_map never faults on a lookup.
C12_LookupsAreKeys ==
    st_pc = "panic" => FaultyLookups = {}

\* world position of ring cell idx of the chunk being stitched
RingPos(idx) == get_perimeter_world_coord(st_coords, side_of(idx), rank_of(idx))

\* the tiles of the other live chunks that lie next to ring cell idx in world
\* coordinates, each with its side that faces the cell
Bordering(idx) ==
    {m \in UNION {{<<n, u, d>> : u \in st_live[n], d \in Dirs} :
                     n \in (DOMAIN st_live) \ {st_coords}} :
        NextTo(WorldPos(m[1], m[2]), m[3], RingPos(idx))}

\* C25: a ring cell of a side whose neighbour chunk exists is collapsed only
\* to an id in the allow-list, for the facing direction, of the neighbour's
\* tile next to it in world coordinates.
C25_NeighbourRestricts ==
    [][\A idx \in Ring :
          (st_pc = "stitch" /\ st_tiles[idx] = None /\ st_tiles'[idx] # None) =>
             \A m \in Bordering(idx) :
                m[2].texture_id \in DOMAIN schematic.tiles =>
                   st_tiles'[idx] \in schematic.tiles[m[2].texture_id][m[3]]]_vars

\* the interior tiles of the chunk being stitched that lie next to ring cell
\* idx in world coordinates, each with the direction from the tile to the cell
OwnBordering(idx) ==
    {m \in st_chunk \X Dirs : NextTo(WorldPos(st_coords, m[1]), m[2], RingPos(idx))}

\* C26: a non-corner ring cell is collapsed only to an id in the allow-list
\* of the chunk's own interior tile that borders it, for the outward
\* direction: north on the north side, east on the east side, south on the
\* south side, west on the west side.
C26_OwnEdgeRestricts ==
    [][\A idx \in Ring :
          (st_pc = "stitch" /\ st_tiles[idx] = None /\ st_tiles'[idx] # None) =>
             \A m \in OwnBordering(idx) :
                m[1].texture_id \in DOMAIN schematic.tiles =>
                   st_tiles'[idx] \in schematic.tiles[m[1].texture_id][m[2]]]_vars

\* the id at ring cell j is in the allow-list of the id at ring cell i for the
\* direction from i to j
RingAllows(i, j) ==
    \A d \in Dirs :
        NextTo(RingPos(i), d, RingPos(j)) => st_tiles[j] \in schematic.tiles[st_tiles[i]][d]

\* ring cell i was collapsed before ring cell j
Earlier(i, j) ==
    \E a, b \in 1 .. Len(st_order) : a < b /\ st_order[a] = i /\ st_order[b] = j

\* C27: after stitch returned, for two consecutive ring cells (corners and
\* the wrap from the last cell to cell 0 included) that are both collapsed,
\* the id of the cell collapsed later is in the allow-list of the cell
\* collapsed earlier for the direction from the earlier to the later.
C27_RingConsistent ==
    st_pc \in {"stitched", "spawned"} =>
        \A i, j \in Ring :
            (/\ j = (i + 1) % RingLen \/ i = (j + 1) % RingLen
             /\ Earlier(i, j))
            => RingAllows(i, j)

\* the Stitcher was given a neighbour for side s (the slots of st_adj are
\* numbered from 1)
HasNeighbour(s) == st_adj[s + 1].some

\* ring cell idx has had an empty domain, was never selected and holds no tile
Skipped(idx) ==
    /\ st_constraint_map[idx] = {}
    /\ st_tiles[idx] = None
    /\ \A a \in 1 .. Len(st_order) : st_order[a] # idx

\* Stitcher::init has run
StitcherRuns == st_pc \in {"stitch", "stitched", "spawned", "panic"}

\* Stitcher::init has returned and stitch has not begun
StitcherStarts == st_pc = "stitch" /\ st_order = <<>>

\* C28 as stated: every ring cell of a side without neighbour, its rank-0
\* corner included, starts with an empty domain, is never selected and is
\* None in the output; every ring cell of a side with a neighbour starts with
\* the full id set.
C28_AbsentSideSkipped ==
    /\ StitcherRuns =>
          \A idx \in Ring : ~HasNeighbour(side_of(idx)) => Skipped(idx)
    /\ StitcherStarts =>
          \A idx \in Ring :
             HasNeighbour(side_of(idx)) => st_constraint_map[idx] = DOMAIN schematic.tiles

\* C28 amended: the rank-0 corner of a side is skipped when neither that side
\* nor the side before it has a neighbour; the cells of ranks 1..L are
\* skipped when the side has none; every ring cell of a side with a
\* neighbour, and the rank-0 corner of the side after it, starts with the
\* full id set.
C28_AbsentSideSkippedButCorner ==
    /\ StitcherRuns =>
          \A idx \in Ring :
             (/\ ~HasNeighbour(side_of(idx))
              /\ rank_of(idx) = 0 => ~HasNeighbour((side_of(idx) + 3) % 4))
             => Skipped(idx)
    /\ StitcherStarts =>
          \A idx \in Ring :
             (\/ HasNeighbour(side_of(idx))
              \/ rank_of(idx) = 0 /\ HasNeighbour((side_of(idx) + 3) % 4))
             => st_constraint_map[idx] = DOMAIN schematic.tiles

\* stitch returned for a chunk with a side without neighbour, whose cells
\* were skipped, next to a side with one, whose corner was collapsed
C28_Witness ==
    /\ st_pc = "stitched"
    /\ \E idx \in Ring :
          /\ ~HasNeighbour(side_of(idx))
          /\ rank_of(idx) = 0
          /\ HasNeighbour((side_of(idx) + 3) % 4)
          /\ st_tiles[idx] # None
    /\ \E idx \in Ring : ~HasNeighbour(side_of(idx)) /\ rank_of(idx) # 0 /\ Skipped(idx)

(***************************************************************************)
(* schematic.rs: SchematicLoader::load.  The document is what serde_json   *)
(* makes of the bytes: either no SchematicJson (malformed JSON, a missing  *)
(* or ill-typed field), or not_found and the flattened map from the other  *)
(* keys, which are strings, to TileSchematics.  A string is the sequence   *)
(* of its characters.                                                      *)
(***************************************************************************)
\* the largest u8
U8Max == 255

\* Err of key.parse::<u8>()
ParseErr == -1

IsDigit(c) == c \in {"0", "1", "2", "3", "4", "5", "6", "7", "8", "9"}

DigitVal(c) ==
    CASE c = "0" -> 0 [] c = "1" -> 1 [] c = "2" -> 2 [] c = "3" -> 3 [] c = "4" -> 4
      [] c = "5" -> 5 [] c = "6" -> 6 [] c = "7" -> 7 [] c = "8" -> 8 [] OTHER -> 9

RECURSIVE ParseDigits(_, _)
\* the digits, most significant first, added to acc; ParseErr on a character
\* that is no digit and on overflow
ParseDigits(str, acc) ==
    IF str = <<>>
    THEN acc
    ELSE IF ~IsDigit(Head(str))
         THEN ParseErr
         ELSE LET v == (acc * 10) + DigitVal(Head(str))
              IN  IF v > U8Max THEN ParseErr ELSE ParseDigits(Tail(str), v)

\* str::parse::<u8>: an optional plus sign, then at least one digit
ParseU8(str) ==
    LET digits == IF str # <<>> /\ Head(str) = "+" THEN Tail(str) ELSE str
    IN  IF digits = <<>> THEN ParseErr ELSE ParseDigits(digits, 0)

\* the key strings of the documents
KeyStrings == {<<"0">>, <<"1">>, <<"0", "1">>, <<"g">>, <<"2", "5", "6">>}

\* the TileSchematic values of the documents
LoaderTiles == {[d \in Dirs |-> {}], [d \in Dirs |-> {0}]}

SchematicJson ==
    { [wellformed |-> TRUE, not_found |-> nf, tiles |-> ts] :
        nf \in 0 .. NumTiles,
        ts \in UNION {[ks -> LoaderTiles] : ks \in SUBSET KeyStrings} }
    \cup
    { [wellformed |-> FALSE, not_found |-> 0, tiles |-> <<>>] }

LoaderInit ==
    /\ schematic = [not_found |-> 0, tiles |-> [t \in Keys |-> TileSchematic({}, t)]]
    /\ WfcRest
    /\ WorldIdle
    /\ watch = NoWatch
    /\ StitchIdle
    /\ ld_bytes \in SchematicJson
    /\ ld_pc = "start"
    /\ ld_result = <<>>
    /\ DrawIdle

\* the maps the loop of inserts can build: where two key strings parse to
\* one u8 the later insert wins, and the HashMap's iteration order decides
\* which one is later
converted(data) ==
    LET ks == {ParseU8(key) : key \in DOMAIN data.tiles}
    IN  { [k \in ks |-> data.tiles[pick[k]]] :
            pick \in {f \in [ks -> DOMAIN data.tiles] : \A k \in ks : ParseU8(f[k]) = k} }

\* load: from_slice, then the conversion of the keys
Load ==
    /\ ld_pc = "start"
    /\ ld_pc' = "done"
    /\ IF ~ld_bytes.wellformed
       THEN ld_result' = [kind |-> "err"]
       ELSE IF \E key \in DOMAIN ld_bytes.tiles : ParseU8(key) = ParseErr
            THEN ld_result' = [kind |-> "panic"]
            ELSE \E cnv \in converted(ld_bytes) :
                    ld_result' = [kind |-> "ok",
                                  asset |-> [not_found |-> ld_bytes.not_found,
                                             tiles |-> cnv]]
    /\ UNCHANGED <<ld_bytes, wfc_vars, world_vars, stitch_vars, draw_vars>>

LoaderNext == Load

SpecLoader == LoaderInit /\ [][LoaderNext]_vars

(***************************************************************************)
(* Claims on the loader (checked under SpecLoader).                        *)
(***************************************************************************)
\* C13: load returns an error, never a schematic, when not_found is not one
\* of the tile keys: every schematic returned has not_found among its keys.
C13_FallbackIsKey ==
    (ld_pc = "done" /\ ld_result.kind = "ok") =>
        ld_result.asset.not_found \in DOMAIN ld_result.asset.tiles

\* C14: load finishes with a schematic or an error value for every input; an
\* input that is no valid schematic (a tile key that does not parse as a u8
\* included) yields the error value, never an abort.
C14_NeverAborts ==
    ld_pc = "done" =>
        /\ ld_result.kind \in {"ok", "err"}
        /\ (~ld_bytes.wellformed
            \/ \E key \in DOMAIN ld_bytes.tiles : ParseU8(key) = ParseErr)
              => ld_result.kind = "err"

(***************************************************************************)
(* Claims on both passes (checked under SpecGenerate).                     *)
(***************************************************************************)
\* C16: every step of WaveFunctionCollapse and of Stitcher only removes ids
\* from domains: each cell's domain after a step of a run is a subset of
\* its domain before the step.
C16_DomainsShrink ==
    [][/\ wfc_pc \in {"scratch", "select", "update"} =>
             \A c \in Cells : constraint_map'[c] \subseteq constraint_map[c]
       /\ st_pc = "stitch" =>
             \A idx \in Ring : st_constraint_map'[idx] \subseteq st_constraint_map[idx]]_vars

\* both passes have narrowed domains: the interior is collapsed, and the
\* Stitcher holds a collapsed ring cell next to a cell whose domain lost ids
C16_Witness ==
    /\ wfc_pc = "spawned"
    /\ \E c \in Cells : tiles[c] # None /\ constraint_map[c] = {}
    /\ st_pc = "stitch"
    /\ \E idx \in Ring : st_tiles[idx] # None
    /\ \E idx \in Ring :
          /\ st_constraint_map[idx] # {}
          /\ st_constraint_map[idx] # DOMAIN schematic.tiles

\* C22: lowest_entropy returns None iff every domain is empty; otherwise the
\* cell of the smallest non-empty domain, and among the cells of that size
\* the first in scan order (interior: x outer, y inner; ring: ascending
\* index).
C22_FirstMinimum ==
    /\ wfc_pc = "select" =>
          LET r == lowest_entropy(constraint_map)
          IN  /\ r = NoCell <=> \A c \in Cells : constraint_map[c] = {}
              /\ r # NoCell =>
                    /\ constraint_map[r] # {}
                    /\ \A d \in Cells \ {r} :
                          constraint_map[d] # {} =>
                             \/ Cardinality(constraint_map[r]) < Cardinality(constraint_map[d])
                             \/ /\ Cardinality(constraint_map[r]) = Cardinality(constraint_map[d])
                                /\ ScanBefore(r, d)
    /\ st_pc = "stitch" =>
          LET r == stitch_lowest_entropy(st_constraint_map)
          IN  /\ r = None <=> \A idx \in Ring : st_constraint_map[idx] = {}
              /\ r # None =>
                    /\ st_constraint_map[r] # {}
                    /\ \A d \in Ring \ {r} :
                          st_constraint_map[d] # {} =>
                             \/ Cardinality(st_constraint_map[r]) < Cardinality(st_constraint_map[d])
                             \/ /\ Cardinality(st_constraint_map[r]) = Cardinality(st_constraint_map[d])
                                /\ r < d

\* the Stitcher is about to select among domains of two sizes with a tie at
\* the minimum, after an interior pass that selected in the same situation
C22_Witness ==
    /\ wfc_pc = "spawned"
    /\ st_pc = "stitch"
    /\ \E a, b, c \in Ring :
          /\ a # b
          /\ Cardinality(st_constraint_map[a]) = 1
          /\ Cardinality(st_constraint_map[b]) = 1
          /\ Cardinality(st_constraint_map[c]) = 2
          /\ c < a /\ c < b

(***************************************************************************)
(* Claims on the tile positions of the live chunks (checked under          *)
(* SpecWorld).                                                             *)
(***************************************************************************)
\* world positions of the interior tiles create_chunks spawns for a chunk
InteriorPos(c) ==
    {<<c[1] + (i * TILE_SIZE), c[2] + (j * TILE_SIZE)>> :
        i \in 0 .. (CHUNK_TILE_LENGTH - 1), j \in 0 .. (CHUNK_TILE_LENGTH - 1)}

\* world positions of the ring tiles gen_chunk_stitches spawns for a chunk
RingPosOf(c) == {get_perimeter_world_coord(c, side_of(idx), rank_of(idx)) : idx \in Ring}

\* the positions of the tiles of a live chunk: a stitched chunk has its ring
TilePositions(ch) ==
    InteriorPos(ch.coords) \cup (IF ch.dirty THEN {} ELSE RingPosOf(ch.coords))

\* C29: no world tile position holds tiles of two different live chunks: the
\* interiors and stitched rings of distinct live chunks are pairwise disjoint.
C29_NoOverlap ==
    /\ \A a \in BagToSet(chunks) : chunks[a] = 1
    /\ \A a, b \in BagToSet(chunks) :
          a # b => TilePositions(a) \cap TilePositions(b) = {}

\* the same for the chunks of the lattice only, those at (0,0) left aside
LatticeNoOverlap ==
    \A a, b \in BagToSet(chunks) :
        (a # b /\ a.coords # <<0, 0>> /\ b.coords # <<0, 0>>) =>
            TilePositions(a) \cap TilePositions(b) = {}

\* world position of the ring cell (side, rank) of the chunk at c
CellPos(c, side, rank) == get_perimeter_world_coord(c, side, rank)

\* the direction in which the ring turns into side s: north side eastwards
\* after the north-west corner, and so on clockwise
TurnInto(s) ==
    CASE s = 0 -> "north" [] s = 1 -> "east" [] s = 2 -> "south" [] OTHER -> "west"

\* C30 as stated: in the ring of every stitched chunk, rank 0 of each side
\* lies at the world position of rank L of the previous side.
C30_CornerShared ==
    \A ch \in BagToSet(chunks) :
        ~ch.dirty =>
            \A s \in 0 .. 3 :
                CellPos(ch.coords, s, 0) = CellPos(ch.coords, (s + 3) % 4, CHUNK_TILE_LENGTH)

\* C30 amended: rank 0 of each side is the corner cell one tile beyond rank L
\* of the previous side; the 4L + 4 entries are pairwise distinct positions,
\* the one-tile frame around the interior.
C30_CornerFollows ==
    \A ch \in BagToSet(chunks) :
        ~ch.dirty =>
            /\ \A s \in 0 .. 3 :
                  NextTo(CellPos(ch.coords, (s + 3) % 4, CHUNK_TILE_LENGTH), TurnInto(s),
                         CellPos(ch.coords, s, 0))
            /\ Cardinality(RingPosOf(ch.coords)) = RingLen
            /\ RingPosOf(ch.coords) =
                  {<<ch.coords[1] + (i * TILE_SIZE), ch.coords[2] + (j * TILE_SIZE)>> :
                      i \in -1 .. CHUNK_TILE_LENGTH, j \in -1 .. CHUNK_TILE_LENGTH}
                  \ InteriorPos(ch.coords)

\* a chunk of the lattice has been stitched and its ring spawned
C30_Witness ==
    \E ch \in BagToSet(chunks) : ~ch.dirty /\ ch.coords # <<0, 0>> /\ ~ran_stitch


\* two tile positions that share an edge: one tile apart along exactly one axis
Adjacent4(p, q) ==
    \/ (p[1] = q[1] /\ (p[2] - q[2] = TILE_SIZE \/ q[2] - p[2] = TILE_SIZE))
    \/ (p[2] = q[2] /\ (p[1] - q[1] = TILE_SIZE \/ q[1] - p[1] = TILE_SIZE))

\* world position of the ring cell with index idx of the chunk at c
RingCellPos(c, idx) == get_perimeter_world_coord(c, side_of(idx), rank_of(idx))

\* the border of the (L+2) x (L+2) square of tiles around the chunk at c
Frame(c) ==
    {<<c[1] + (i * TILE_SIZE), c[2] + (j * TILE_SIZE)>> :
        i \in -1 .. CHUNK_TILE_LENGTH, j \in -1 .. CHUNK_TILE_LENGTH}
    \ {<<c[1] + (i * TILE_SIZE), c[2] + (j * TILE_SIZE)>> :
        i \in 0 .. (CHUNK_TILE_LENGTH - 1), j \in 0 .. (CHUNK_TILE_LENGTH - 1)}

\* C31: for every chunk the pass stitches, get_perimeter_world_coord maps the
\* 4L + 4 ring indices to pairwise distinct positions, these are exactly the positions of
\* the one-tile frame around the interior, and consecutive ring indices (the
\* wrap from the last to the first included) are 4-adjacent positions.
C31_RingIsFrame ==
    \A c \in {ch.coords : ch \in cmd_stitch} :
        LET pos == [i \in Ring |-> RingCellPos(c, i)]
        IN  /\ Cardinality({pos[i] : i \in Ring}) = RingLen
            /\ {pos[i] : i \in Ring} = Frame(c)
            /\ \A i \in Ring : Adjacent4(pos[i], pos[(i + 1) % RingLen])

\* the pass spawns the rings of chunks on both sides of the origin
C31_Witness ==
    /\ \E ch \in cmd_stitch : ch.coords[1] < 0 /\ ch.coords[2] < 0
    /\ \E ch \in cmd_stitch : ch.coords[1] > 0 /\ ch.coords[2] > 0


(***************************************************************************)
(* Claims on the run of Stitcher::stitch (checked under SpecStitch).       *)
(***************************************************************************)
\* ring index of the south-west corner cell: side 3, rank 0
SouthWestCorner == 3 * (CHUNK_TILE_LENGTH + 1)

\* update_constraint_map, run on tiles t and domains cm, processes the still
\* uncollapsed south-west corner while the ring cell after it is collapsed
CornerAfterCheck(t, cm) ==
    /\ t[SouthWestCorner] = None
    /\ cm[SouthWestCorner] # {}
    /\ t[SouthWestCorner + 1] # None

\* C32: whenever update_constraint_map processes the uncollapsed south-west
\* corner cell (side 3, rank 0) while the following ring cell (side 3, rank 1)
\* is collapsed, ring cell 0, the one it unwraps, is already collapsed.
C32_CornerUnwrapSafe ==
    [][(st_pc = "stitch" /\ st_tiles' # st_tiles /\ CornerAfterCheck(st_tiles', st_constraint_map))
          => st_tiles'[0] # None]_vars

\* the corner is still open with a domain while the cell after it holds a tile
C32_Witness ==
    /\ st_pc = "stitch"
    /\ Len(st_order) >= 2
    /\ st_tiles[SouthWestCorner] = None
    /\ st_constraint_map[SouthWestCorner] # {}
    /\ st_tiles[SouthWestCorner + 1] # None
    /\ st_tiles[0] # None


TickEndStep == ran_gen /\ ran_stitch /\ ~ran_gen'

\* C34: within a tick the presence check of create_chunks, the stale check of
\* remove_stale_chunks and the neighbour lookup of gen_chunk_stitches read the
\* live set of the start of the tick: the commands of gen_chunks are those
\* computed from the live set whatever has run before, a chunk whose spawn is
\* requested in the tick is neither stitched nor counted as a neighbour in it,
\* and a chunk whose despawn is requested is still stitched if dirty and
\* still counted as a neighbour.
C34_SnapshotPerTick ==
    /\ [](ran_gen =>
             /\ cmd_spawn = create_chunks(in_range, chunks)
             /\ cmd_despawn = remove_stale_chunks(in_range, chunks))
    /\ []((ran_gen /\ ran_stitch) =>
             /\ \A b \in BagToSet(cmd_spawn) : b \notin cmd_stitch
             /\ \A ch \in cmd_despawn : ch.dirty => ch \in cmd_stitch)
    /\ [][TickEndStep =>
             \A ch \in cmd_stitch \ cmd_despawn :
                 [coords |-> ch.coords, dirty |-> FALSE,
                  adj |-> [slot \in 1 .. 4 |->
                              connected_coord(ch.coords, slot) \in LiveCoords(chunks)]]
                     \in BagToSet(chunks')]_vars

\* in one tick a chunk is stitched whose neighbour's spawn is requested and not
\* yet live, and another one whose neighbour's despawn is requested
C34_Witness ==
    /\ ran_gen /\ ran_stitch
    /\ \E ch \in cmd_stitch \ cmd_despawn, slot \in 1 .. 4 :
          /\ connected_coord(ch.coords, slot) \in LiveCoords(cmd_spawn)
          /\ connected_coord(ch.coords, slot) \notin LiveCoords(chunks)
    /\ \E ch \in cmd_stitch \ cmd_despawn, slot \in 1 .. 4 :
          connected_coord(ch.coords, slot) \in {d.coords : d \in cmd_despawn}


\* create_chunks has run in the tick (first phase of gen_chunks)
CreationDone == ran_gen

\* remove_stale_chunks has run in the tick (last phase of gen_chunks)
DespawnRequested == ran_gen

\* C35: in every tick the phases run in the order create, stitch, request
\* despawn: whenever the stitching pass has run the creation phase of the tick
\* has run before it, and whenever the despawn phase has run the stitching
\* pass of the tick has run before it.
C35_CreateStitchDespawn ==
    /\ ran_stitch => CreationDone
    /\ DespawnRequested => ran_stitch


(***************************************************************************)
(* Claims on the chunk hash and the draws (checked under SpecWfc).         *)
(***************************************************************************)
\* the value get_hash feeds to the hasher
HashSum(world_seed, coords) == coords[1] + coords[2] + world_seed

\* seeds that differ by one stride, so that sums of different pairs coincide
TwinSeeds == {WORLD_SEED, WORLD_SEED + CHUNK_SIZE + TILE_SIZE}

\* the coordinates of SpecWfc and the chunk one stride west of the first
TwinCoords == WfcTwins \cup {<<c[1] - CHUNK_SIZE - TILE_SIZE, c[2]>> : c \in WfcCoords}

\* C36: two (seed, coordinate) pairs with equal sums coords.0 + coords.1 + seed
\* get the same hash, and two chunks whose coordinates have the same x + y,
\* generated with the same seed and schematic, get identical interior grids.
C36_SameSumSameGrid ==
    /\ \A s1 \in TwinSeeds, s2 \in TwinSeeds, c1 \in TwinCoords, c2 \in TwinCoords :
          HashSum(s1, c1) = HashSum(s2, c2) => get_hash(s1, c1) = get_hash(s2, c2)
    /\ (/\ Returned
        /\ runs > 1
        /\ wfc_coords # prev_coords
        /\ wfc_coords[1] + wfc_coords[2] = prev_coords[1] + prev_coords[2])
          => tiles = prev_tiles


\* the index of id k in the enumeration of the set in the order o
IndexIn(o, set, k) == Cardinality({j \in set : PosIn(o, j) < PosIn(o, k)})

\* no allow-list of the schematic leaves an id out: every domain stays full
Unconstrained ==
    \A t \in DOMAIN schematic.tiles, d \in Dirs :
        schematic.tiles[t][d] = DOMAIN schematic.tiles

\* C37: every draw of WaveFunctionCollapse is the first value of a generator
\* freshly seeded with the chunk's hash: the index collapse_tile draws is the
\* one the seeded generator gives for the size of the domain, whichever draw
\* of the run it is, and the id scratch takes is the one at that index of the
\* keys; so draws from domains of equal size pick the same index, and under a
\* schematic that never narrows a domain all cells of a chunk get the same id.
C37_FreshSeedPerDraw ==
    /\ [][/\ (wfc_pc = "scratch" /\ wfc_pc' = "select") =>
                \E korder \in Orders :
                    IndexIn(korder, DOMAIN schematic.tiles, tiles'[<<0, 0>>])
                        = rng[Cardinality(DOMAIN schematic.tiles)]
          /\ (wfc_pc = "select" /\ wfc_pc' = "update"
                 /\ lowest_entropy(constraint_map) # NoCell) =>
                LET next == lowest_entropy(constraint_map)
                IN  IndexIn(wfc_order, constraint_map[next], tiles'[next])
                        = rng[Cardinality(constraint_map[next])]
          /\ (wfc_pc # "spawned" => rng' = rng /\ wfc_hash' = wfc_hash)]_vars
    /\ []((Returned /\ Unconstrained) =>
             \A c, d \in Cells : tiles[c] = tiles[d])

\* a chunk was collapsed under a schematic that narrows no domain: each of its
\* draws was made from a domain of the same size
C37_Witness ==
    /\ Returned
    /\ Unconstrained
    /\ Cardinality(DOMAIN schematic.tiles) > 1
    /\ \A c \in Cells : tiles[c] # None
    /\ iterations = (CHUNK_TILE_LENGTH * CHUNK_TILE_LENGTH) + 1

(***************************************************************************)
(* The random draw of scratch and of the two collapse_tile functions, for  *)
(* every size a set of u8 ids can have: the length is cast to u8 and       *)
(* 0..that is the range of gen_range, which panics on an empty range.      *)
(***************************************************************************)
\* the number of u8 values: the largest key set and the largest domain
MaxDomain == U8Max + 1

DrawSites == {"scratch", "collapse_tile", "Stitcher::collapse_tile"}

DrawInit ==
    /\ WfcIdle
    /\ WorldIdle
    /\ watch = NoWatch
    /\ StitchIdle
    /\ LoaderIdle
    /\ draw_site \in DrawSites
    /\ draw_len \in 1 .. MaxDomain
    /\ draw_upper = 0
    /\ draw_rand = None
    /\ draw_pc = "len"

\* keys.len() as u8 / available.len() as u8
CastLen ==
    /\ draw_pc = "len"
    /\ draw_upper' = AsU8(draw_len)
    /\ draw_pc' = "cast"
    /\ UNCHANGED <<draw_site, draw_len, draw_rand, wfc_vars, world_vars, stitch_vars, loader_vars>>

\* rng.gen_range(0..upper): some index below upper, a panic when the range
\* is empty
GenRange ==
    /\ draw_pc = "cast"
    /\ IF draw_upper = 0
       THEN /\ draw_pc' = "panic"
            /\ UNCHANGED draw_rand
       ELSE /\ \E r \in 0 .. (draw_upper - 1) : draw_rand' = r
            /\ draw_pc' = "drawn"
    /\ UNCHANGED <<draw_site, draw_len, draw_upper, wfc_vars, world_vars, stitch_vars, loader_vars>>

DrawNext == CastLen \/ GenRange

SpecDraw == DrawInit /\ [][DrawNext]_vars

\* C38: for every domain size n from 1 to 256 the upper bound given to the
\* draw equals n, the draw does not fail on an empty range, and the index
\* drawn lies in [0, n).
C38_UpperIsLen ==
    draw_pc \in {"cast", "drawn", "panic"} =>
        /\ draw_upper = draw_len
        /\ draw_pc # "panic"
        /\ (draw_pc = "drawn" => (draw_rand >= 0 /\ draw_rand < draw_len))

====
